---- MODULE Spec2Model ----
(***************************************************************************)
(* ActionManager of qView (src/src/actionmanager.cpp): the recents list    *)
(* with its debounced persistence, the clone registry of actions and       *)
(* menus, and the dispatch of triggered actions.                           *)
(*                                                                         *)
(* Modelling conventions                                                   *)
(*  - the build modelled is the one for Linux (Q_OS_UNIX, neither          *)
(*    Q_OS_MACOS nor Q_OS_WIN nor COCOA_LOADED);                           *)
(*  - the manager's mutable state is threaded through the operators as a   *)
(*    record s (objects, both clone registries, recentsList, the store,    *)
(*    the timer, isSaveRecentsEnabled), which also carries what a call     *)
(*    reads of its environment (the setting, the existing files); an       *)
(*    action of the model is one whole call from the event loop, and       *)
(*    assigns the resulting record;                                        *)
(*  - a pointer is a natural number, nullptr is 0.  The actions of the     *)
(*    action library are created first and are the pointers 1..NLib; of   *)
(*    their properties only visibility is ever changed by this file, so   *)
(*    their state is the set of hidden keys.  Every other QAction, QMenu  *)
(*    or QMenuBar is an entry of s.objects, the j-th created one being    *)
(*    the pointer NLib + j; a QMenu and its menuAction() are one object   *)
(*    of kind "menu";                                                      *)
(*  - a QList is a sequence, indexed from 0 in the code and from 1 here    *)
(*    (At, RemoveAt); a QMultiHash is the sequence of its (key, value)     *)
(*    pairs in insertion order;                                            *)
(*  - a file path is a pair <<dir, name>>: QFileInfo::fileName is its last *)
(*    component, QFileInfo::filePath the whole pair;                       *)
(*  - the persisted store is the QVariantList kept under                   *)
(*    recents/recentFiles: a sequence of string lists <<name, path>>;      *)
(*  - a QString is a TLA+ string; Chars gives its characters where the     *)
(*    code looks inside one (startsWith, contains, at).                    *)
(***************************************************************************)
EXTENDS Integers, Sequences, FiniteSets, TLC

VARIABLES
    hidden,                 \* the library actions that are not visible
    objects,                \* every other QAction, QMenu and QMenuBar created
    actionCloneLibrary,     \* QMultiHash<QString, QAction*>
    menuCloneLibrary,       \* QMultiHash<QString, QMenu*>
    recentsList,            \* QList<SRecent>
    store,                  \* QSettings recents/recentFiles
    timerActive,            \* recentsSaveTimer->isActive()
    isSaveRecentsEnabled,   \* the member read by auditRecentsList
    saverecents,            \* the "saverecents" setting of the settings manager
    existing,               \* the paths QFileInfo::exists answers true for
    storeWrites,            \* settings.setValue calls made by the last operation
    pendingAdds,            \* adds since the save timer last expired
    lastOp,                 \* the operation that returned last
    lastCall                \* its argument, its result and what it was given

vars == <<hidden, objects, actionCloneLibrary, menuCloneLibrary, recentsList, store,
          timerActive, isSaveRecentsEnabled, saverecents, existing,
          storeWrites, pendingAdds, lastOp, lastCall>>

----------------------------------------------------------------------------
(* Program constants and the bounds of the model *)

recentsListMaxLength == 10
openWithMaxLength == 10
nullptr == 0

MaxStoreLen == 4
MaxExtra == 1
MaxBurst == 2
MaxMenus == 1
MaxFairStore == 1
MaxBuilt == 2
MaxClones == 3
MaxWindows == 1
MaxWideLen == 5

----------------------------------------------------------------------------
(* QString *)

CharsTable == {
    <<"quit", <<"q", "u", "i", "t">>>>,
    <<"newwindow", <<"n", "e", "w", "w", "i", "n", "d", "o", "w">>>>,
    <<"open", <<"o", "p", "e", "n">>>>,
    <<"openurl", <<"o", "p", "e", "n", "u", "r", "l">>>>,
    <<"closewindow", <<"c", "l", "o", "s", "e", "w", "i", "n", "d", "o", "w">>>>,
    <<"closeallwindows", <<"c", "l", "o", "s", "e", "a", "l", "l", "w", "i", "n", "d", "o", "w", "s">>>>,
    <<"opencontainingfolder", <<"o", "p", "e", "n", "c", "o", "n", "t", "a", "i", "n", "i", "n", "g", "f", "o", "l", "d", "e", "r">>>>,
    <<"showfileinfo", <<"s", "h", "o", "w", "f", "i", "l", "e", "i", "n", "f", "o">>>>,
    <<"delete", <<"d", "e", "l", "e", "t", "e">>>>,
    <<"undo", <<"u", "n", "d", "o">>>>,
    <<"copy", <<"c", "o", "p", "y">>>>,
    <<"paste", <<"p", "a", "s", "t", "e">>>>,
    <<"rename", <<"r", "e", "n", "a", "m", "e">>>>,
    <<"zoomin", <<"z", "o", "o", "m", "i", "n">>>>,
    <<"zoomout", <<"z", "o", "o", "m", "o", "u", "t">>>>,
    <<"resetzoom", <<"r", "e", "s", "e", "t", "z", "o", "o", "m">>>>,
    <<"originalsize", <<"o", "r", "i", "g", "i", "n", "a", "l", "s", "i", "z", "e">>>>,
    <<"rotateright", <<"r", "o", "t", "a", "t", "e", "r", "i", "g", "h", "t">>>>,
    <<"rotateleft", <<"r", "o", "t", "a", "t", "e", "l", "e", "f", "t">>>>,
    <<"mirror", <<"m", "i", "r", "r", "o", "r">>>>,
    <<"flip", <<"f", "l", "i", "p">>>>,
    <<"fullscreen", <<"f", "u", "l", "l", "s", "c", "r", "e", "e", "n">>>>,
    <<"firstfile", <<"f", "i", "r", "s", "t", "f", "i", "l", "e">>>>,
    <<"previousfile", <<"p", "r", "e", "v", "i", "o", "u", "s", "f", "i", "l", "e">>>>,
    <<"nextfile", <<"n", "e", "x", "t", "f", "i", "l", "e">>>>,
    <<"lastfile", <<"l", "a", "s", "t", "f", "i", "l", "e">>>>,
    <<"saveframeas", <<"s", "a", "v", "e", "f", "r", "a", "m", "e", "a", "s">>>>,
    <<"pause", <<"p", "a", "u", "s", "e">>>>,
    <<"nextframe", <<"n", "e", "x", "t", "f", "r", "a", "m", "e">>>>,
    <<"decreasespeed", <<"d", "e", "c", "r", "e", "a", "s", "e", "s", "p", "e", "e", "d">>>>,
    <<"resetspeed", <<"r", "e", "s", "e", "t", "s", "p", "e", "e", "d">>>>,
    <<"increasespeed", <<"i", "n", "c", "r", "e", "a", "s", "e", "s", "p", "e", "e", "d">>>>,
    <<"slideshow", <<"s", "l", "i", "d", "e", "s", "h", "o", "w">>>>,
    <<"options", <<"o", "p", "t", "i", "o", "n", "s">>>>,
    <<"about", <<"a", "b", "o", "u", "t">>>>,
    <<"welcome", <<"w", "e", "l", "c", "o", "m", "e">>>>,
    <<"clearrecents", <<"c", "l", "e", "a", "r", "r", "e", "c", "e", "n", "t", "s">>>>,
    <<"openwithother", <<"o", "p", "e", "n", "w", "i", "t", "h", "o", "t", "h", "e", "r">>>>,
    <<"recent0", <<"r", "e", "c", "e", "n", "t", "0">>>>,
    <<"recent1", <<"r", "e", "c", "e", "n", "t", "1">>>>,
    <<"recent2", <<"r", "e", "c", "e", "n", "t", "2">>>>,
    <<"recent3", <<"r", "e", "c", "e", "n", "t", "3">>>>,
    <<"recent4", <<"r", "e", "c", "e", "n", "t", "4">>>>,
    <<"recent5", <<"r", "e", "c", "e", "n", "t", "5">>>>,
    <<"recent6", <<"r", "e", "c", "e", "n", "t", "6">>>>,
    <<"recent7", <<"r", "e", "c", "e", "n", "t", "7">>>>,
    <<"recent8", <<"r", "e", "c", "e", "n", "t", "8">>>>,
    <<"recent9", <<"r", "e", "c", "e", "n", "t", "9">>>>,
    <<"openwith0", <<"o", "p", "e", "n", "w", "i", "t", "h", "0">>>>,
    <<"openwith1", <<"o", "p", "e", "n", "w", "i", "t", "h", "1">>>>,
    <<"openwith2", <<"o", "p", "e", "n", "w", "i", "t", "h", "2">>>>,
    <<"openwith3", <<"o", "p", "e", "n", "w", "i", "t", "h", "3">>>>,
    <<"openwith4", <<"o", "p", "e", "n", "w", "i", "t", "h", "4">>>>,
    <<"openwith5", <<"o", "p", "e", "n", "w", "i", "t", "h", "5">>>>,
    <<"openwith6", <<"o", "p", "e", "n", "w", "i", "t", "h", "6">>>>,
    <<"openwith7", <<"o", "p", "e", "n", "w", "i", "t", "h", "7">>>>,
    <<"openwith8", <<"o", "p", "e", "n", "w", "i", "t", "h", "8">>>>,
    <<"openwith9", <<"o", "p", "e", "n", "w", "i", "t", "h", "9">>>>,
    <<"disable", <<"d", "i", "s", "a", "b", "l", "e">>>>,
    <<"undodisable", <<"u", "n", "d", "o", "d", "i", "s", "a", "b", "l", "e">>>>,
    <<"folderdisable", <<"f", "o", "l", "d", "e", "r", "d", "i", "s", "a", "b", "l", "e">>>>,
    <<"gifdisable", <<"g", "i", "f", "d", "i", "s", "a", "b", "l", "e">>>>,
    <<"recent", <<"r", "e", "c", "e", "n", "t">>>>,
    <<"openwith", <<"o", "p", "e", "n", "w", "i", "t", "h">>>>,
    <<"view", <<"v", "i", "e", "w">>>>,
    <<"tools", <<"t", "o", "o", "l", "s">>>>,
    <<"help", <<"h", "e", "l", "p">>>>,
    <<"recents", <<"r", "e", "c", "e", "n", "t", "s">>>>,
    <<"", <<>>>> }

CharsOf ==
    [str \in { p[1] : p \in CharsTable } |->
        (CHOOSE p \in CharsTable : p[1] = str)[2]]

Chars(str) == CharsOf[str]

IsPrefix(pre, chars) ==
    /\ Len(pre) <= Len(chars)
    /\ \A k \in 1..Len(pre) : chars[k] = pre[k]

startsWith(str, prefix) == IsPrefix(Chars(prefix), Chars(str))

contains(str, sub) ==
    \E off \in 0..(Len(Chars(str)) - Len(Chars(sub))) :
        \A k \in 1..Len(Chars(sub)) : Chars(str)[off + k] = Chars(sub)[k]

DigitTable == { <<"0", 0>>, <<"1", 1>>, <<"2", 2>>, <<"3", 3>>, <<"4", 4>>,
                <<"5", 5>>, <<"6", 6>>, <<"7", 7>>, <<"8", 8>>, <<"9", 9>> }

digitValue(ch) ==
    IF \E p \in DigitTable : p[1] = ch
    THEN (CHOOSE p \in DigitTable : p[1] = ch)[2]
    ELSE -1

number(i) == (CHOOSE p \in DigitTable : p[2] = i)[1]

Concat(chars) == (CHOOSE p \in CharsTable : p[2] = chars)[1]

RecentKeys ==
    [i \in 0..9 |-> Concat(Chars("recent") \o <<number(i)>>)]
OpenWithKeys ==
    [i \in 0..9 |-> Concat(Chars("openwith") \o <<number(i)>>)]

RecentKey(i) == RecentKeys[i]
OpenWithKey(i) == OpenWithKeys[i]

----------------------------------------------------------------------------
(* QVariant *)

Invalid == [type |-> "invalid", value |-> <<>>]
QString(str) == [type |-> "string", value |-> <<str>>]
QStringList(list) == [type |-> "stringlist", value |-> list]
QVariantList(list) == [type |-> "variantlist", value |-> list]

toString(variant) ==
    IF variant.type = "string" THEN variant.value[1]
    ELSE IF variant.type = "stringlist" /\ Len(variant.value) = 1
         THEN variant.value[1]
         ELSE ""

toStringList(variant) == variant.value

toList(variant) ==
    IF variant.type \in {"variantlist", "stringlist"} THEN variant.value
    ELSE <<>>

----------------------------------------------------------------------------
(* QList and QMultiHash *)

\* Statement sequencing: Op runs on the value the statements before it left.
Then(value, Op(_)) == CHOOSE result \in { Op(v) : v \in {value} } : TRUE

At(list, i) == list[i + 1]

RemoveAt(list, i) ==
    [k \in 1..(Len(list) - 1) |-> IF k <= i THEN list[k] ELSE list[k + 1]]

RemoveLast(list) == SubSeq(list, 1, Len(list) - 1)

Prepend(list, x) == <<x>> \o list

Reverse(list) == [k \in 1..Len(list) |-> list[Len(list) + 1 - k]]

Insert(hash, key, value) == Append(hash, <<key, value>>)

Values(hash, key) ==
    LET hits == SelectSeq(hash, LAMBDA p : p[1] = key)
    IN Reverse([k \in 1..Len(hits) |-> hits[k][2]])

Remove(hash, key, value) == SelectSeq(hash, LAMBDA p : p # <<key, value>>)

RemoveCount(hash, key, value) == Len(hash) - Len(Remove(hash, key, value))

----------------------------------------------------------------------------
(* Files *)

BigNames == << "f01.png", "f02.png", "f03.png", "f04.png", "f05.png",
               "f06.png", "f07.png", "f08.png", "f09.png", "f10.png",
               "f11.png", "f12.png", "f13.png", "f14.png" >>

SmallPaths == { <<"d1", "a.png">>, <<"d2", "a.png">> }
BigPath(i) == <<"d3", BigNames[i]>>
BigPaths == { BigPath(i) : i \in 1..(recentsListMaxLength + MaxExtra) }

fileName(path) == path[2]
filePath(path) == path

SRecent(path) == [fileName |-> fileName(path), filePath |-> filePath(path)]

Exists(path, ex) == path \in ex

----------------------------------------------------------------------------
(* The store's format *)

recentsListToVariantList(list) ==
    [k \in 1..Len(list) |-> <<list[k].fileName, list[k].filePath>>]

variantListToRecentsList(variantList) ==
    [k \in 1..Len(variantList) |->
        [fileName |-> variantList[k][1], filePath |-> variantList[k][2]]]

----------------------------------------------------------------------------
(* The action library *)

LibraryEntries == <<
    [key |-> "quit", text |-> "&Quit", data |-> Invalid],
    [key |-> "newwindow", text |-> "New Window", data |-> Invalid],
    [key |-> "open", text |-> "&Open...", data |-> Invalid],
    [key |-> "openurl", text |-> "Open &URL...", data |-> Invalid],
    [key |-> "closewindow", text |-> "Close Window", data |-> Invalid],
    [key |-> "closeallwindows", text |-> "Close All", data |-> Invalid],
    [key |-> "opencontainingfolder", text |-> "Open Containing &Folder", data |-> QString("disable")],
    [key |-> "showfileinfo", text |-> "Show File &Info", data |-> QString("disable")],
    [key |-> "delete", text |-> "&Move to Trash", data |-> QString("disable")],
    [key |-> "undo", text |-> "&Restore from Trash", data |-> QString("undodisable")],
    [key |-> "copy", text |-> "&Copy", data |-> QString("disable")],
    [key |-> "paste", text |-> "&Paste", data |-> Invalid],
    [key |-> "rename", text |-> "R&ename...", data |-> QString("disable")],
    [key |-> "zoomin", text |-> "Zoom &In", data |-> QString("disable")],
    [key |-> "zoomout", text |-> "Zoom &Out", data |-> QString("disable")],
    [key |-> "resetzoom", text |-> "Reset &Zoom", data |-> QString("disable")],
    [key |-> "originalsize", text |-> "Ori&ginal Size", data |-> QString("disable")],
    [key |-> "rotateright", text |-> "Rotate &Right", data |-> QString("disable")],
    [key |-> "rotateleft", text |-> "Rotate &Left", data |-> QString("disable")],
    [key |-> "mirror", text |-> "&Mirror", data |-> QString("disable")],
    [key |-> "flip", text |-> "&Flip", data |-> QString("disable")],
    [key |-> "fullscreen", text |-> "Enter F&ull Screen", data |-> Invalid],
    [key |-> "firstfile", text |-> "&First File", data |-> QString("folderdisable")],
    [key |-> "previousfile", text |-> "Previous Fi&le", data |-> QString("folderdisable")],
    [key |-> "nextfile", text |-> "&Next File", data |-> QString("folderdisable")],
    [key |-> "lastfile", text |-> "Las&t File", data |-> QString("folderdisable")],
    [key |-> "saveframeas", text |-> "Save Frame &As...", data |-> QString("gifdisable")],
    [key |-> "pause", text |-> "Pa&use", data |-> QString("gifdisable")],
    [key |-> "nextframe", text |-> "&Next Frame", data |-> QString("gifdisable")],
    [key |-> "decreasespeed", text |-> "&Decrease Speed", data |-> QString("gifdisable")],
    [key |-> "resetspeed", text |-> "&Reset Speed", data |-> QString("gifdisable")],
    [key |-> "increasespeed", text |-> "&Increase Speed", data |-> QString("gifdisable")],
    [key |-> "slideshow", text |-> "Start S&lideshow", data |-> QString("disable")],
    [key |-> "options", text |-> "Preference&s", data |-> Invalid],
    [key |-> "about", text |-> "&About", data |-> Invalid],
    [key |-> "welcome", text |-> "&Welcome", data |-> Invalid],
    [key |-> "clearrecents", text |-> "Clear &Menu", data |-> Invalid],
    [key |-> "openwithother", text |-> "Other Application...", data |-> Invalid] >>

LibraryKeys == { LibraryEntries[k].key : k \in 1..Len(LibraryEntries) }

NewObject(kind, data, text, enabled, visible) ==
    [kind |-> kind, data |-> data, text |-> text, enabled |-> enabled,
     visible |-> visible, items |-> <<>>, deleted |-> 0]

LibraryAction(entry) ==
    LET data == Prepend(toStringList(entry.data), entry.key)
    IN NewObject("action", QStringList(data), entry.text,
                 ~contains(data[Len(data)], "disable"), TRUE)

initializeActionLibrary ==
    [k \in 1..Len(LibraryEntries) |-> LibraryAction(LibraryEntries[k])]

NLib == Len(LibraryEntries)

getAction(key) ==
    IF key \in LibraryKeys
    THEN CHOOSE k \in 1..Len(LibraryEntries) : LibraryEntries[k].key = key
    ELSE nullptr

----------------------------------------------------------------------------
(* The manager's state as a record, and the objects it creates *)

Cur ==
    [hidden |-> hidden,
     objects |-> objects,
     actionCloneLibrary |-> actionCloneLibrary,
     menuCloneLibrary |-> menuCloneLibrary,
     recentsList |-> recentsList,
     store |-> store,
     timerActive |-> timerActive,
     isSaveRecentsEnabled |-> isSaveRecentsEnabled,
     storeWrites |-> 0,
     saverecents |-> saverecents,
     existing |-> existing]

Create(s, obj) == [s EXCEPT !.objects = Append(@, obj)]

Newest(s) == NLib + Len(s.objects)

Object(s, pointer) ==
    IF pointer <= NLib
    THEN [initializeActionLibrary[pointer] EXCEPT
              !.visible = LibraryEntries[pointer].key \notin s.hidden]
    ELSE s.objects[pointer - NLib]

addAction(s, menu, action) ==
    [s EXCEPT !.objects[menu - NLib].items = Append(@, action)]

addSeparator(s, menu) ==
    Then(Create(s, NewObject("separator", Invalid, "", TRUE, TRUE)),
         LAMBDA s1 : addAction(s1, menu, Newest(s1)))

----------------------------------------------------------------------------
(* cloneAction and the registry's readers *)

CloneOfShown(action) ==
    NewObject("action", action.data, action.text, action.enabled, TRUE)

CloneOf(action) ==
    NewObject("action", action.data, action.text, action.enabled,
              action.visible)

cloneAction(s, key) ==
    IF getAction(key) # nullptr
    THEN Then(Create(s, CloneOf(Object(s, getAction(key)))),
              LAMBDA s1 :
                  [s |-> [s1 EXCEPT !.actionCloneLibrary =
                                        Insert(@, key, Newest(s1))],
                   ret |-> Newest(s1)])
    ELSE [s |-> s, ret |-> nullptr]

getAllClonesOfAction(s, key) == Values(s.actionCloneLibrary, key)

getAllInstancesOfAction(s, key) ==
    IF getAction(key) # nullptr
    THEN Append(getAllClonesOfAction(s, key), getAction(key))
    ELSE getAllClonesOfAction(s, key)

getAllClonesOfMenu(s, key) == Values(s.menuCloneLibrary, key)

InSeq(x, list) == \E k \in 1..Len(list) : list[k] = x

RECURSIVE SetVisible(_, _, _, _)
SetVisible(objs, ids, k, visible) ==
    IF k > Len(ids) THEN objs
    ELSE SetVisible([objs EXCEPT ![ids[k] - NLib].visible = visible], ids,
                    k + 1, visible)

hideAllInstancesOfAction(s, key) ==
    [s EXCEPT
        !.objects = SetVisible(@, getAllClonesOfAction(s, key), 1, FALSE),
        !.hidden = IF getAction(key) # nullptr THEN @ \cup {key} ELSE @]

----------------------------------------------------------------------------
(* The recents list *)

RECURSIVE UpdateSlot(_, _, _, _, _)
UpdateSlot(objs, actions, k, i, list) ==
    IF k > Len(actions) THEN objs
    ELSE UpdateSlot(
             IF i < Len(list)
             THEN [objs EXCEPT ![actions[k] - NLib].visible = TRUE,
                               ![actions[k] - NLib].text = At(list, i).fileName]
             ELSE [objs EXCEPT ![actions[k] - NLib].visible = FALSE,
                               ![actions[k] - NLib].text = "Empty"],
             actions, k + 1, i, list)

RECURSIVE UpdateSlots(_, _, _, _)
UpdateSlots(objs, hash, i, list) ==
    IF i >= recentsListMaxLength THEN objs
    ELSE UpdateSlots(UpdateSlot(objs, Values(hash, RecentKey(i)), 1, i, list),
                     hash, i + 1, list)

updateRecentsMenu(s) ==
    [s EXCEPT !.objects =
        UpdateSlots(@, s.actionCloneLibrary, 0, s.recentsList)]

RECURSIVE AuditDuplicates(_, _, _, _)
AuditDuplicates(list, i, i2, recent) ==
    IF i2 >= Len(list) THEN list
    ELSE IF i = i2 THEN AuditDuplicates(list, i, i2 + 1, recent)
    ELSE IF recent = At(list, i2)
         THEN AuditDuplicates(RemoveAt(list, i2), i, i2 + 1, recent)
         ELSE AuditDuplicates(list, i, i2 + 1, recent)

RECURSIVE AuditLoop(_, _, _)
AuditLoop(list, i, ex) ==
    IF i >= Len(list) THEN list
    ELSE LET recent == At(list, i)
             kept == IF ~Exists(recent.filePath, ex)
                     THEN RemoveAt(list, i)
                     ELSE list
         IN Then(AuditDuplicates(kept, i, 0, recent),
                 LAMBDA next : AuditLoop(next, i + 1, ex))

\* Mutant: the length test is off by one.
RECURSIVE AuditTrimLate(_)
AuditTrimLate(list) ==
    IF Len(list) > recentsListMaxLength + 1
    THEN AuditTrimLate(RemoveLast(list))
    ELSE list

RECURSIVE AuditTrim(_)
AuditTrim(list) ==
    IF Len(list) > recentsListMaxLength
    THEN AuditTrim(RemoveLast(list))
    ELSE list

AuditCleared(list, enabled) == IF ~enabled THEN <<>> ELSE list

auditRecentsListStale(s) ==
    [s EXCEPT !.recentsList =
        AuditTrim(AuditLoop(AuditCleared(@, s.isSaveRecentsEnabled), 0,
                            s.existing))]

auditRecentsList(s) ==
    Then([s EXCEPT !.recentsList =
             AuditTrim(AuditLoop(AuditCleared(@, s.isSaveRecentsEnabled), 0,
                                 s.existing))],
         updateRecentsMenu)

\* Mutant: the guard on the running save timer is missing.
loadRecentsListUnguarded(s) ==
    auditRecentsList(
        [s EXCEPT !.recentsList = variantListToRecentsList(s.store)])

loadRecentsList(s) ==
    IF s.timerActive
    THEN s
    ELSE auditRecentsList(
             [s EXCEPT !.recentsList = variantListToRecentsList(s.store)])

saveRecentsList(s) ==
    Then(auditRecentsList(s),
         LAMBDA s1 :
             [s1 EXCEPT !.store = recentsListToVariantList(s1.recentsList),
                        !.storeWrites = @ + 1])

\* Mutant: the add saves at once instead of starting the timer.
addFileToRecentsListSaving(s, file) ==
    saveRecentsList([s EXCEPT !.recentsList = Prepend(@, SRecent(file)),
                              !.timerActive = TRUE])

addFileToRecentsList(s, file) ==
    Then(auditRecentsList(
             [s EXCEPT !.recentsList = Prepend(@, SRecent(file))]),
         LAMBDA s1 : [s1 EXCEPT !.timerActive = TRUE])

clearRecentsList(s) == saveRecentsList([s EXCEPT !.recentsList = <<>>])

settingsUpdatedKeeping(s, value) ==
    [s EXCEPT !.isSaveRecentsEnabled = value,
              !.objects = SetVisible(@, Values(s.menuCloneLibrary, "recents"),
                                     1, value)]

settingsUpdated(s, value) ==
    Then([s EXCEPT
             !.isSaveRecentsEnabled = value,
             !.objects = SetVisible(@, Values(s.menuCloneLibrary, "recents"),
                                    1, value)],
         LAMBDA s1 : IF ~value THEN clearRecentsList(s1) ELSE s1)

\* Mutant: the timer is not single-shot.
onTimeoutRepeating(s) == saveRecentsList(s)

onTimeout(s) == saveRecentsList([s EXCEPT !.timerActive = FALSE])

----------------------------------------------------------------------------
(* buildRecentsMenu *)

RECURSIVE RecentsSlots(_, _, _)
RecentsSlots(s, menu, i) ==
    IF i >= recentsListMaxLength THEN s
    ELSE Then(Create(s, NewObject("action", QString(RecentKey(i)), "Empty",
                                  TRUE, FALSE)),
              LAMBDA s1 :
                  RecentsSlots(
                      [addAction(s1, menu, Newest(s1)) EXCEPT
                          !.actionCloneLibrary =
                              Insert(@,
                                     toStringList(
                                         Object(s1, Newest(s1)).data)[1],
                                     Newest(s1))],
                      menu, i + 1))

AddClone(s, menu, key) ==
    Then(cloneAction(s, key),
         LAMBDA clone : addAction(clone.s, menu, clone.ret))

ClearAction(s, menu) == AddClone(addSeparator(s, menu), menu, "clearrecents")

RegisterMenu(s, menu) ==
    [s EXCEPT !.menuCloneLibrary =
        Insert(@, toString(Object(s, menu).data), menu)]

RegisterRecentsMenu(s, menu) ==
    settingsUpdated(updateRecentsMenu(RegisterMenu(s, menu)), s.saverecents)

buildRecentsMenu(s, includeClearAction) ==
    Then(Create(s, NewObject("menu", QString("recents"), "Open &Recent",
                             TRUE, TRUE)),
         LAMBDA s1 :
             [s |-> RegisterRecentsMenu(
                        IF includeClearAction
                        THEN ClearAction(RecentsSlots(s1, Newest(s1), 0),
                                         Newest(s1))
                        ELSE RecentsSlots(s1, Newest(s1), 0),
                        Newest(s1)),
              ret |-> Newest(s1)])

----------------------------------------------------------------------------
(* The view, tools, help and open-with menus *)

\* What each builder adds to its menu, in order; "" stands for addSeparator.
ViewMenuEntries ==
    << "zoomin", "zoomout", "resetzoom", "originalsize", "",
       "rotateright", "rotateleft", "", "mirror", "flip", "", "fullscreen" >>

ToolsMenuEntries ==
    << "saveframeas", "pause", "nextframe", "",
       "decreasespeed", "resetspeed", "increasespeed", "",
       "slideshow", "options" >>

HelpMenuEntries == << "about", "welcome" >>

RECURSIVE AddEntries(_, _, _, _)
AddEntries(s, menu, entries, k) ==
    IF k > Len(entries) THEN s
    ELSE AddEntries(IF entries[k] = ""
                    THEN addSeparator(s, menu)
                    ELSE AddClone(s, menu, entries[k]),
                    menu, entries, k + 1)

BuildMenu(s, key, text, entries) ==
    Then(Create(s, NewObject("menu", QString(key), text, TRUE, TRUE)),
         LAMBDA s1 :
             [s |-> RegisterMenu(AddEntries(s1, Newest(s1), entries, 1),
                                 Newest(s1)),
              ret |-> Newest(s1)])

buildViewMenu(s) == BuildMenu(s, "view", "&View", ViewMenuEntries)

buildToolsMenu(s) == BuildMenu(s, "tools", "&Tools", ToolsMenuEntries)

buildHelpMenu(s) == BuildMenu(s, "help", "&Help", HelpMenuEntries)

RECURSIVE OpenWithSlots(_, _, _)
OpenWithSlots(s, menu, i) ==
    IF i >= openWithMaxLength THEN s
    ELSE Then(Create(s, NewObject("action",
                                  QVariantList(<<OpenWithKey(i), "">>),
                                  "Empty", TRUE, FALSE)),
              LAMBDA s1 :
                  OpenWithSlots(
                      [addAction(s1, menu, Newest(s1)) EXCEPT
                          !.actionCloneLibrary =
                              Insert(@,
                                     toStringList(
                                         Object(s1, Newest(s1)).data)[1],
                                     Newest(s1))],
                      menu, i + 1))

buildOpenWithMenu(s) ==
    Then(Create(s, NewObject("menu", QString("openwith"), "Open With",
                             FALSE, TRUE)),
         LAMBDA s1 :
             [s |-> RegisterMenu(
                        AddClone(addSeparator(
                                     OpenWithSlots(s1, Newest(s1), 0),
                                     Newest(s1)),
                                 Newest(s1), "openwithother"),
                        Newest(s1)),
              ret |-> Newest(s1)])

----------------------------------------------------------------------------
(* untrackClonedActions *)

\* Every action of the list, each followed by the actions nested in its menu.
RECURSIVE getAllNestedActions(_, _, _)
getAllNestedActions(s, actions, k) ==
    IF k > Len(actions) THEN <<>>
    ELSE <<actions[k]>>
         \o (IF Object(s, actions[k]).kind = "menu"
             THEN getAllNestedActions(s, Object(s, actions[k]).items, 1)
             ELSE <<>>)
         \o getAllNestedActions(s, actions, k + 1)

\* delete: the object is destroyed and leaves the menus that showed it.
Delete(s, pointer) ==
    [s EXCEPT !.objects =
        [j \in 1..Len(@) |->
            IF j = pointer - NLib
            THEN [@[j] EXCEPT !.deleted = @ + 1]
            ELSE [@[j] EXCEPT !.items =
                      SelectSeq(@, LAMBDA item : item # pointer)]]]

UntrackAction(s, action, key) ==
    IF Object(s, action).kind = "menu"
    THEN IF RemoveCount(s.menuCloneLibrary, key, action) > 0
         THEN Delete([s EXCEPT !.menuCloneLibrary = Remove(@, key, action)],
                     action)
         ELSE s
    ELSE IF RemoveCount(s.actionCloneLibrary, key, action) > 0
         THEN Delete([s EXCEPT !.actionCloneLibrary = Remove(@, key, action)],
                     action)
         ELSE s

RECURSIVE UntrackActions(_, _, _)
UntrackActions(s, actions, k) ==
    IF k > Len(actions) THEN s
    ELSE UntrackActions(
             UntrackAction(s, actions[k],
                           toString(Object(s, actions[k]).data)),
             actions, k + 1)

untrackClonedActions(s, menu) ==
    UntrackActions(s, getAllNestedActions(s, Object(s, menu).items, 1), 1)

----------------------------------------------------------------------------
(* actionTriggered *)

\* A call the dispatcher makes: on the application, on a window, on the
\* manager, or on one of the toolkit's static entry points.
OnWindow(window, method) ==
    [on |-> "window", window |-> window, method |-> method,
     index |-> 0, item |-> ""]

OnApp(method, window) ==
    [on |-> "qvApp", window |-> window, method |-> method,
     index |-> 0, item |-> ""]

Static(class, method, window) ==
    [on |-> class, window |-> window, method |-> method,
     index |-> 0, item |-> ""]

Key(s, action) == toStringList(Object(s, action).data)[1]

Quit(relevantWindow) ==
    (IF relevantWindow # nullptr
     THEN <<OnWindow(relevantWindow, "close")>> ELSE <<>>)
    \o <<Static("QCoreApplication", "quit", nullptr)>>

\* The conditions that work with a null window, in the order they are tried.
WindowlessConditions(s, key, relevantWindow) ==
    IF key = "quit" THEN [s |-> s, commands |-> Quit(relevantWindow)]
    ELSE IF key = "newwindow"
    THEN [s |-> s, commands |-> <<OnApp("newWindow", nullptr)>>]
    ELSE IF key = "open"
    THEN [s |-> s, commands |-> <<OnApp("pickFile", relevantWindow)>>]
    ELSE IF key = "quit" THEN [s |-> s, commands |-> Quit(relevantWindow)]
    ELSE IF key = "newwindow"
    THEN [s |-> s, commands |-> <<OnApp("newWindow", nullptr)>>]
    ELSE IF key = "open"
    THEN [s |-> s, commands |-> <<OnApp("pickFile", relevantWindow)>>]
    ELSE IF key = "closewindow"
    THEN [s |-> s,
          commands |-> <<Static("QApplication::activeWindow", "close",
                                nullptr)>>]
    ELSE IF key = "closeallwindows"
    THEN [s |-> s,
          commands |-> <<Static("QApplication::topLevelWindows", "close",
                                nullptr)>>]
    ELSE IF key = "options"
    THEN [s |-> s, commands |-> <<OnApp("openOptionsDialog", relevantWindow)>>]
    ELSE IF key = "about"
    THEN [s |-> s, commands |-> <<OnApp("openAboutDialog", relevantWindow)>>]
    ELSE IF key = "welcome"
    THEN [s |-> s, commands |-> <<OnApp("openWelcomeDialog", relevantWindow)>>]
    ELSE IF key = "clearrecents"
    THEN [s |-> clearRecentsList(s),
          commands |-> <<Static("ActionManager", "clearRecentsList",
                                nullptr)>>]
    ELSE [s |-> s, commands |-> <<>>]

\* The plain key == "..." conditions of the second chain, in order.
WindowMethods == <<
    <<"openurl", "pickUrl">>,
    <<"opencontainingfolder", "openContainingFolder">>,
    <<"showfileinfo", "showFileInfo">>,
    <<"delete", "askDeleteFile">>,
    <<"undo", "undoDelete">>,
    <<"copy", "copy">>,
    <<"paste", "paste">>,
    <<"rename", "rename">>,
    <<"zoomin", "zoomIn">>,
    <<"zoomout", "zoomOut">>,
    <<"resetzoom", "resetZoom">>,
    <<"originalsize", "originalSize">>,
    <<"rotateright", "rotateRight">>,
    <<"rotateleft", "rotateLeft">>,
    <<"mirror", "mirror">>,
    <<"flip", "flip">>,
    <<"fullscreen", "toggleFullScreen">>,
    <<"firstfile", "firstFile">>,
    <<"previousfile", "previousFile">>,
    <<"nextfile", "nextFile">>,
    <<"lastfile", "lastFile">>,
    <<"saveframeas", "saveFrameAs">>,
    <<"pause", "pause">>,
    <<"nextframe", "nextFrame">>,
    <<"decreasespeed", "decreaseSpeed">>,
    <<"resetspeed", "resetSpeed">>,
    <<"increasespeed", "increaseSpeed">>,
    <<"slideshow", "toggleSlideshow">> >>

RECURSIVE WindowMethod(_, _, _)
WindowMethod(key, relevantWindow, k) ==
    IF k > Len(WindowMethods) THEN <<>>
    ELSE IF key = WindowMethods[k][1]
    THEN <<OnWindow(relevantWindow, WindowMethods[k][2])>>
    ELSE WindowMethod(key, relevantWindow, k + 1)

\* QList::at(1) of a list with fewer than two elements is out of range:
\* the build either stops on the assertion or reads whatever lies there.
UndefinedOutcomes == {"abort", "garbage"}

OpenWithItem(list, relevantWindow, undefined) ==
    IF Len(list) >= 2
    THEN [OnWindow(relevantWindow, "openWith") EXCEPT !.item = At(list, 1)]
    ELSE IF undefined = "abort"
    THEN Static("process", "abort", nullptr)
    ELSE [OnWindow(relevantWindow, "openWith") EXCEPT !.item = "garbage"]

\* The conditions that require a valid window pointer.
WindowConditions(s, action, key, relevantWindow, undefined) ==
    IF startsWith(key, "recent")
    THEN <<[OnWindow(relevantWindow, "openRecent") EXCEPT
               !.index = digitValue(At(Chars(key), Len(Chars(key)) - 1))]>>
    ELSE IF key = "openwithother"
    THEN <<Static("OpenWith", "showOpenWithDialog", relevantWindow)>>
    ELSE IF startsWith(key, "openwith")
    THEN <<OpenWithItem(toList(Object(s, action).data), relevantWindow,
                        undefined)>>
    ELSE WindowMethod(key, relevantWindow, 1)

actionTriggeredWindowUnfiltered(s, action, relevantWindow, undefined) ==
    Then(WindowlessConditions(s, Key(s, action), relevantWindow),
         LAMBDA first :
             [first EXCEPT !.commands =
                 @ \o WindowConditions(s, action, Key(s, action),
                                       relevantWindow, undefined)])

actionTriggeredWindow(s, action, relevantWindow, undefined) ==
    Then(WindowlessConditions(s, Key(s, action), relevantWindow),
         LAMBDA first :
             IF relevantWindow = nullptr THEN first
             ELSE [first EXCEPT !.commands =
                       @ \o WindowConditions(s, action, Key(s, action),
                                             relevantWindow, undefined)])

windowlessActions == << "newwindow", "quit", "clearrecents", "open" >>

shouldBeEmptyExact(key) == key = "recent" \/ key = "openurl"

shouldBeEmpty(key) == startsWith(key, "recent") \/ key = "openurl"

Dispatched(request, window, done) ==
    [s |-> done.s, commands |-> done.commands, request |-> request,
     dispatched |-> TRUE, window |-> window]

\* mainWindow is what qvApp->getMainWindow answers when it is asked.
actionTriggered(s, action, mainWindow, undefined) ==
    IF InSeq(Key(s, action), windowlessActions)
    THEN Dispatched("none", nullptr,
                    actionTriggeredWindow(s, action, nullptr, undefined))
    ELSE IF mainWindow # nullptr
    THEN Dispatched(IF shouldBeEmpty(Key(s, action)) THEN "empty" ELSE "any",
                    mainWindow,
                    actionTriggeredWindow(s, action, mainWindow, undefined))
    ELSE [s |-> s, commands |-> <<>>,
          request |-> IF shouldBeEmpty(Key(s, action)) THEN "empty" ELSE "any",
          dispatched |-> FALSE, window |-> nullptr]

----------------------------------------------------------------------------
(* Initial states: the state the constructor leaves *)

StoreEntries == { <<fileName(p), filePath(p)>> : p \in SmallPaths }

SeqsUpTo(S, n) == UNION { [1..k -> S] : k \in 0..n }

SmallStores == SeqsUpTo(StoreEntries, MaxStoreLen)

LongStore(n) == [i \in 1..n |-> <<fileName(BigPath(i)), filePath(BigPath(i))>>]

LongStores ==
    { LongStore(n) :
        n \in (recentsListMaxLength - 1)..(recentsListMaxLength + MaxExtra) }

NoCall ==
    [key |-> "", ret |-> nullptr, window |-> nullptr, file |-> <<>>,
     action |-> nullptr, mainWindow |-> nullptr, request |-> "none",
     dispatched |-> FALSE, commands |-> <<>>, menu |-> nullptr,
     actions |-> <<>>]

Commit(result) ==
    \E s \in {result} :
        /\ hidden' = s.hidden
        /\ objects' = s.objects
        /\ actionCloneLibrary' = s.actionCloneLibrary
        /\ menuCloneLibrary' = s.menuCloneLibrary
        /\ recentsList' = s.recentsList
        /\ store' = s.store
        /\ timerActive' = s.timerActive
        /\ isSaveRecentsEnabled' = s.isSaveRecentsEnabled
        /\ storeWrites' = s.storeWrites

Constructed(stored, enabled, setting, files) ==
    loadRecentsList(
        [hidden |-> {},
         objects |-> <<>>,
         actionCloneLibrary |-> <<>>,
         menuCloneLibrary |-> <<>>,
         recentsList |-> <<>>,
         store |-> stored,
         timerActive |-> FALSE,
         isSaveRecentsEnabled |-> enabled,
         storeWrites |-> 0,
         saverecents |-> setting,
         existing |-> files])

Starts(states) ==
    /\ \E s \in states :
          /\ existing = s.existing
          /\ saverecents = s.saverecents
          /\ hidden = s.hidden
          /\ objects = s.objects
          /\ actionCloneLibrary = s.actionCloneLibrary
          /\ menuCloneLibrary = s.menuCloneLibrary
          /\ recentsList = s.recentsList
          /\ store = s.store
          /\ timerActive = s.timerActive
          /\ isSaveRecentsEnabled = s.isSaveRecentsEnabled
          /\ storeWrites = s.storeWrites
    /\ pendingAdds = 0
    /\ lastOp = "init"
    /\ lastCall = NoCall

Started(stores, flags, smalls) ==
    Starts({ Constructed(stored, enabled, setting, BigPaths \cup small) :
                 stored \in stores, enabled \in flags,
                 setting \in flags, small \in smalls })

Init == Started(SmallStores \cup LongStores, BOOLEAN, SUBSET SmallPaths)

----------------------------------------------------------------------------
(* The operations on the recents list, as the event loop runs them *)

AddPaths == { <<"d1", "a.png">>, BigPath(recentsListMaxLength + MaxExtra) }

AddFile(file) ==
    /\ pendingAdds < MaxBurst
    /\ Commit(addFileToRecentsList(Cur, file))
    /\ pendingAdds' = pendingAdds + 1
    /\ lastOp' = "add"
    /\ lastCall' = [NoCall EXCEPT !.file = file]
    /\ UNCHANGED <<saverecents, existing>>

Load ==
    /\ Commit(loadRecentsList(Cur))
    /\ lastOp' = "load"
    /\ lastCall' = NoCall
    /\ UNCHANGED <<saverecents, existing, pendingAdds>>

TimerExpires ==
    /\ timerActive
    /\ Commit(onTimeout(Cur))
    /\ pendingAdds' = 0
    /\ lastOp' = "save"
    /\ lastCall' = NoCall
    /\ UNCHANGED <<saverecents, existing>>

Clear ==
    /\ Commit(clearRecentsList(Cur))
    /\ lastOp' = "clear"
    /\ lastCall' = NoCall
    /\ UNCHANGED <<saverecents, existing, pendingAdds>>

SettingsUpdated(value) ==
    /\ saverecents' = value
    /\ Commit(settingsUpdated(Cur, value))
    /\ lastOp' = "settings"
    /\ lastCall' = NoCall
    /\ UNCHANGED <<existing, pendingAdds>>

BuildRecentsMenu(includeClearAction) ==
    /\ Len(menuCloneLibrary) < MaxMenus
    /\ \E built \in {buildRecentsMenu(Cur, includeClearAction)} :
          /\ Commit(built.s)
          /\ lastCall' = [NoCall EXCEPT !.ret = built.ret]
    /\ lastOp' = "buildRecentsMenu"
    /\ UNCHANGED <<saverecents, existing, pendingAdds>>

DeleteFile(path) ==
    /\ path \in existing
    /\ existing' = existing \ {path}
    /\ UNCHANGED <<hidden, objects, actionCloneLibrary, menuCloneLibrary, recentsList,
                   store, timerActive, isSaveRecentsEnabled, saverecents,
                   storeWrites, pendingAdds, lastOp, lastCall>>

Next ==
    \/ \E file \in AddPaths : AddFile(file)
    \/ Load
    \/ TimerExpires
    \/ Clear
    \/ \E value \in BOOLEAN : SettingsUpdated(value)
    \/ BuildRecentsMenu(TRUE)
    \/ \E path \in SmallPaths : DeleteFile(path)

Spec == Init /\ [][Next]_vars

\* The recents list alone, without menus, under the event loop's guarantee
\* that the timeout of a running single-shot timer is delivered.
FairStores ==
    SeqsUpTo(StoreEntries, MaxFairStore) \cup {LongStore(recentsListMaxLength)}

FairInit == Started(FairStores, BOOLEAN, SUBSET SmallPaths)

FairNext ==
    \/ \E file \in AddPaths : AddFile(file)
    \/ Load
    \/ TimerExpires
    \/ Clear
    \/ \E value \in BOOLEAN : SettingsUpdated(value)
    \/ \E path \in SmallPaths : DeleteFile(path)

FairSpec == FairInit /\ [][FairNext]_vars /\ WF_vars(TimerExpires)

----------------------------------------------------------------------------
(* The recents list over stores of any content *)

\* The settings file is read as it is found: entries may repeat and may name
\* files that are gone.
WidePaths == SmallPaths \cup { <<"d1", "b.png">> }

WideStores ==
    SeqsUpTo({ <<fileName(p), filePath(p)>> : p \in WidePaths }, MaxWideLen)

WideInit ==
    Starts({ Constructed(stored, TRUE, TRUE, files) :
                 stored \in WideStores, files \in SUBSET WidePaths })

FileRemoved(path) ==
    /\ path \in existing
    /\ existing' = existing \ {path}
    /\ lastOp' = "fileRemoved"
    /\ lastCall' = NoCall
    /\ UNCHANGED <<hidden, objects, actionCloneLibrary, menuCloneLibrary,
                   recentsList, store, timerActive, isSaveRecentsEnabled,
                   saverecents, storeWrites, pendingAdds>>

WideNext ==
    \/ \E file \in WidePaths : AddFile(file)
    \/ Load
    \/ TimerExpires
    \/ \E path \in WidePaths : FileRemoved(path)

WideSpec == WideInit /\ [][WideNext]_vars

----------------------------------------------------------------------------
(* Cloning, building and untracking menus, and triggering actions *)

CloneKeys == {"zoomin", "fullscreen", "nosuchaction"}

CloneAction(key) ==
    /\ Len(objects) < MaxClones
    /\ \E made \in {cloneAction(Cur, key)} :
          /\ Commit(made.s)
          /\ lastCall' = [NoCall EXCEPT !.key = key, !.ret = made.ret]
    /\ lastOp' = "cloneAction"
    /\ UNCHANGED <<saverecents, existing, pendingAdds>>

HideAllInstancesOfAction(key) ==
    /\ Commit(hideAllInstancesOfAction(Cur, key))
    /\ lastOp' = "hideAllInstancesOfAction"
    /\ lastCall' = [NoCall EXCEPT !.key = key]
    /\ UNCHANGED <<saverecents, existing, pendingAdds>>

Builders ==
    {"buildViewMenu", "buildToolsMenu", "buildHelpMenu", "buildOpenWithMenu",
     "buildRecentsMenu"}

Built(name, s) ==
    CASE name = "buildViewMenu" -> buildViewMenu(s)
      [] name = "buildToolsMenu" -> buildToolsMenu(s)
      [] name = "buildHelpMenu" -> buildHelpMenu(s)
      [] name = "buildOpenWithMenu" -> buildOpenWithMenu(s)
      [] name = "buildRecentsMenu" -> buildRecentsMenu(s, TRUE)

BuildMenuOf(name, max) ==
    /\ Len(menuCloneLibrary) < max
    /\ \E built \in {Built(name, Cur)} :
          /\ Commit(built.s)
          /\ lastCall' = [NoCall EXCEPT !.ret = built.ret]
    /\ lastOp' = name
    /\ UNCHANGED <<saverecents, existing, pendingAdds>>

Menus == { menuCloneLibrary[k][2] : k \in 1..Len(menuCloneLibrary) }

UntrackClonedActions(menu) ==
    /\ Commit(untrackClonedActions(Cur, menu))
    /\ lastOp' = "untrackClonedActions"
    /\ lastCall' =
           [NoCall EXCEPT !.menu = menu,
                          !.actions = getAllNestedActions(
                                          Cur, Object(Cur, menu).items, 1)]
    /\ UNCHANGED <<saverecents, existing, pendingAdds>>

Windows == 1..MaxWindows

\* The actions a trigger can come from: the library's, and every clone, slot
\* and menu action still alive.  Separators are never triggered.
Triggerable ==
    (1..NLib) \cup { NLib + j : j \in { i \in 1..Len(objects) :
                                          /\ objects[i].kind # "separator"
                                          /\ objects[i].deleted = 0 } }

Triggered(action, mainWindow, done) ==
    /\ Commit(done.s)
    /\ lastCall' = [NoCall EXCEPT !.action = action,
                                  !.mainWindow = mainWindow,
                                  !.request = done.request,
                                  !.dispatched = done.dispatched,
                                  !.window = done.window,
                                  !.commands = done.commands]
    /\ UNCHANGED <<saverecents, existing, pendingAdds>>

ActionTriggered(action, mainWindow, undefined) ==
    /\ \E done \in {actionTriggered(Cur, action, mainWindow, undefined)} :
          Triggered(action, mainWindow, done)
    /\ lastOp' = "actionTriggered"

ActionTriggeredWindow(action, relevantWindow, undefined) ==
    /\ \E done \in {actionTriggeredWindow(Cur, action, relevantWindow,
                                           undefined)} :
          Triggered(action, nullptr,
                    Dispatched("none", relevantWindow, done))
    /\ lastOp' = "actionTriggeredWindow"

CloneInit == Started({<<>>}, BOOLEAN, {{}})

CloneNext ==
    \/ \E key \in CloneKeys : CloneAction(key)
    \/ \E key \in CloneKeys : HideAllInstancesOfAction(key)

CloneSpec == CloneInit /\ [][CloneNext]_vars

MenuInit == Started({<<>>}, BOOLEAN, {{}})

MenuNext ==
    \/ \E name \in Builders : BuildMenuOf(name, MaxBuilt)
    \/ \E menu \in Menus : UntrackClonedActions(menu)

MenuSpec == MenuInit /\ [][MenuNext]_vars

DispatchStore == << <<fileName(BigPath(1)), filePath(BigPath(1))>> >>

\* A window exists: its view, recents and open-with menus have been built.
DispatchInit ==
    Starts({ buildOpenWithMenu(
                 buildRecentsMenu(
                     buildViewMenu(
                         Constructed(DispatchStore, TRUE, TRUE, BigPaths)).s,
                     TRUE).s).s })

DispatchNext ==
    \/ \E action \in Triggerable, mainWindow \in Windows \cup {nullptr},
          undefined \in UndefinedOutcomes :
           ActionTriggered(action, mainWindow, undefined)
    \/ \E action \in Triggerable, relevantWindow \in Windows \cup {nullptr},
          undefined \in UndefinedOutcomes :
           ActionTriggeredWindow(action, relevantWindow, undefined)

DispatchSpec == DispatchInit /\ [][DispatchNext]_vars

----------------------------------------------------------------------------
(* Claims about the recents list *)

NoDuplicates(list) ==
    \A a, b \in 1..Len(list) : a # b => list[a] # list[b]

AllExist(list, ex) == \A k \in 1..Len(list) : Exists(list[k].filePath, ex)

Persisted == store = recentsListToVariantList(recentsList)

\* A step in which auditRecentsList ran to its end.
AuditRan ==
    /\ existing' = existing
    /\ \/ lastOp' \in {"add", "save", "clear"}
       \/ lastOp' = "load" /\ ~timerActive
       \/ lastOp' \in {"settings", "buildRecentsMenu"} /\ ~isSaveRecentsEnabled'

\* C1: whatever the store held and whichever files exist, recentsList has at
\* most recentsListMaxLength entries after the constructor and after every
\* operation.
C1_Bounded == Len(recentsList) <= recentsListMaxLength

\* An add to a full list has evicted the last entry.
C1_Witness ==
    /\ lastOp = "add"
    /\ Len(recentsList) = recentsListMaxLength
    /\ recentsList[1].filePath = BigPath(recentsListMaxLength + MaxExtra)
    /\ recentsList[recentsListMaxLength].filePath =
           BigPath(recentsListMaxLength - 1)

\* C2: recentsList never holds two equal entries (it changes only in
\* operations that end with the audit, the constructor's load included).
C2_NoDuplicates == NoDuplicates(recentsList)

\* C3: when the audit has run, every entry left in recentsList names a file
\* that exists.
C3_AllExist == [][AuditRan => AllExist(recentsList', existing')]_vars

\* C4: an add writes nothing to the store and leaves the timer running; the
\* timer runs exactly while adds are pending; the expiry that ends a burst of
\* adds makes one write, of the list as it is then, and stops the timer.
C4_Debounced ==
    [][ /\ pendingAdds' = pendingAdds + 1 =>
              /\ lastOp' = "add"
              /\ storeWrites' = 0
              /\ store' = store
              /\ timerActive'
        /\ (pendingAdds > 0 /\ pendingAdds' = 0) =>
              /\ lastOp' = "save"
              /\ storeWrites' = 1
              /\ Persisted'
              /\ ~timerActive'
        /\ (lastOp' = "save" /\ existing' = existing) =>
              pendingAdds > 0 /\ pendingAdds' = 0
        /\ timerActive' <=> pendingAdds' > 0 ]_vars

\* A burst of MaxBurst adds is pending and nothing of it is in the store.
C4_Witness ==
    /\ lastOp = "add"
    /\ pendingAdds = MaxBurst
    /\ storeWrites = 0
    /\ isSaveRecentsEnabled
    /\ Len(recentsList) > 0
    /\ recentsList[1] = SRecent(lastCall.file)
    /\ timerActive
    /\ ~Persisted

\* C5: once a file was added, the timer eventually is inactive with the store
\* equal to the list in memory.
C5_EventuallySaved == (lastOp = "add") ~> (~timerActive /\ Persisted)

\* An added file is in memory and not yet in the store.
C5_Witness ==
    /\ lastOp = "add"
    /\ timerActive
    /\ Len(recentsList) > 0
    /\ recentsList[1] = SRecent(lastCall.file)
    /\ ~Persisted

\* C9: a load that finds the save timer active changes neither recentsList
\* nor the store nor any menu entry.
C9_LoadSkipped ==
    [][(lastOp' = "load" /\ timerActive) =>
           UNCHANGED <<recentsList, store, objects, actionCloneLibrary,
                       menuCloneLibrary, timerActive>>]_vars

\* A load with the timer active, a menu built, and a list in memory that a
\* load from the store would have replaced.
C9_Witness ==
    /\ lastOp = "load"
    /\ timerActive
    /\ Len(menuCloneLibrary) > 0
    /\ isSaveRecentsEnabled
    /\ recentsList # variantListToRecentsList(store)
    /\ Len(recentsList) > 0

----------------------------------------------------------------------------
(* Dispatch *)

TriggeredKey == Key(Cur, lastCall'.action)

SlotIndex(key, keys) == CHOOSE i \in 0..9 : keys[i + 1] = key

SlotKeys(prefix) == [k \in 1..10 |-> Concat(Chars(prefix) \o <<number(k - 1)>>)]

MethodOfKey ==
    { <<"openurl", "pickUrl">>,
      <<"opencontainingfolder", "openContainingFolder">>,
      <<"showfileinfo", "showFileInfo">>, <<"delete", "askDeleteFile">>,
      <<"undo", "undoDelete">>, <<"copy", "copy">>, <<"paste", "paste">>,
      <<"rename", "rename">>, <<"zoomin", "zoomIn">>,
      <<"zoomout", "zoomOut">>, <<"resetzoom", "resetZoom">>,
      <<"originalsize", "originalSize">>, <<"rotateright", "rotateRight">>,
      <<"rotateleft", "rotateLeft">>, <<"mirror", "mirror">>,
      <<"flip", "flip">>, <<"fullscreen", "toggleFullScreen">>,
      <<"firstfile", "firstFile">>, <<"previousfile", "previousFile">>,
      <<"nextfile", "nextFile">>, <<"lastfile", "lastFile">>,
      <<"saveframeas", "saveFrameAs">>, <<"pause", "pause">>,
      <<"nextframe", "nextFrame">>, <<"decreasespeed", "decreaseSpeed">>,
      <<"resetspeed", "resetSpeed">>, <<"increasespeed", "increaseSpeed">>,
      <<"slideshow", "toggleSlideshow">> }

AppMethodOfKey ==
    { <<"open", "pickFile">>, <<"options", "openOptionsDialog">>,
      <<"about", "openAboutDialog">>, <<"welcome", "openWelcomeDialog">> }

\* The one command that belongs to a key, for a window that is not null.
CommandsOf(key, window, data) ==
    IF key = "quit"
    THEN << OnWindow(window, "close"),
            Static("QCoreApplication", "quit", nullptr) >>
    ELSE IF key = "newwindow" THEN << OnApp("newWindow", nullptr) >>
    ELSE IF key = "closewindow"
    THEN << Static("QApplication::activeWindow", "close", nullptr) >>
    ELSE IF key = "closeallwindows"
    THEN << Static("QApplication::topLevelWindows", "close", nullptr) >>
    ELSE IF key = "clearrecents"
    THEN << Static("ActionManager", "clearRecentsList", nullptr) >>
    ELSE IF key = "openwithother"
    THEN << Static("OpenWith", "showOpenWithDialog", window) >>
    ELSE IF \E p \in AppMethodOfKey : p[1] = key
    THEN << OnApp((CHOOSE p \in AppMethodOfKey : p[1] = key)[2], window) >>
    ELSE IF \E p \in MethodOfKey : p[1] = key
    THEN << OnWindow(window, (CHOOSE p \in MethodOfKey : p[1] = key)[2]) >>
    ELSE IF InSeq(key, SlotKeys("recent"))
    THEN << [OnWindow(window, "openRecent") EXCEPT
                !.index = SlotIndex(key, SlotKeys("recent"))] >>
    ELSE IF InSeq(key, SlotKeys("openwith"))
    THEN << [OnWindow(window, "openWith") EXCEPT !.item = data.value[2]] >>
    ELSE << >>

\* C6: triggered with a window that is not null, an action whose key is a
\* catalog key or a recents or open-with slot key issues exactly the command
\* that belongs to the key, and an action with any other key issues none.
C6_OneCommandPerKey ==
    [][(lastOp' = "actionTriggeredWindow" /\ lastCall'.window # nullptr)
       => lastCall'.commands =
              CommandsOf(TriggeredKey, lastCall'.window,
                         Object(Cur, lastCall'.action).data)]_vars

WindowAsked == lastCall'.request # "none"

\* C10: triggered without a window, the keys newwindow, quit, clearrecents
\* and open are dispatched with a null window and no window is asked for;
\* every other key asks for a main window, for an empty one exactly when the
\* key begins with "recent" or is "openurl", and is dispatched to the window
\* returned, or not at all when none is returned.
C10_WindowLookup ==
    [][lastOp' = "actionTriggered"
       => IF TriggeredKey \in {"newwindow", "quit", "clearrecents", "open"}
          THEN /\ ~WindowAsked
               /\ lastCall'.dispatched
               /\ lastCall'.window = nullptr
          ELSE /\ WindowAsked
               /\ lastCall'.request = "empty"
                     <=> \/ /\ Len(Chars(TriggeredKey)) >= 6
                            /\ SubSeq(Chars(TriggeredKey), 1, 6)
                                 = Chars("recent")
                         \/ TriggeredKey = "openurl"
               /\ lastCall'.mainWindow = nullptr
                     => /\ ~lastCall'.dispatched
                        /\ lastCall'.commands = <<>>
                        /\ UNCHANGED <<hidden, objects, actionCloneLibrary,
                                       menuCloneLibrary, recentsList, store,
                                       timerActive, isSaveRecentsEnabled>>
               /\ lastCall'.mainWindow # nullptr
                     => /\ lastCall'.dispatched
                        /\ lastCall'.window = lastCall'.mainWindow]_vars

C10_Witness ==
    /\ lastOp = "actionTriggered"
    /\ Key(Cur, lastCall.action) = "recent3"
    /\ lastCall.request = "empty"
    /\ lastCall.mainWindow \in Windows
    /\ lastCall.commands =
           << [OnWindow(lastCall.mainWindow, "openRecent") EXCEPT !.index = 3] >>

WindowlessKeys ==
    {"quit", "newwindow", "open", "closewindow", "closeallwindows", "options",
     "about", "welcome", "clearrecents"}

WindowlessCommands ==
    { Static("QCoreApplication", "quit", nullptr),
      OnApp("newWindow", nullptr), OnApp("pickFile", nullptr),
      Static("QApplication::activeWindow", "close", nullptr),
      Static("QApplication::topLevelWindows", "close", nullptr),
      OnApp("openOptionsDialog", nullptr), OnApp("openAboutDialog", nullptr),
      OnApp("openWelcomeDialog", nullptr),
      Static("ActionManager", "clearRecentsList", nullptr) }

\* C11: dispatched with a null window, an action runs no method of a window:
\* only the commands of the first group run, each for its own key, and the
\* keys of the second group issue nothing and change nothing.
C11_NullWindow ==
    [][(lastOp' \in {"actionTriggered", "actionTriggeredWindow"}
          /\ lastCall'.dispatched /\ lastCall'.window = nullptr)
       => /\ \A k \in 1..Len(lastCall'.commands) :
                /\ lastCall'.commands[k] \in WindowlessCommands
                /\ lastCall'.commands[k].on # "window"
          /\ TriggeredKey \notin WindowlessKeys
                => /\ lastCall'.commands = <<>>
                   /\ UNCHANGED <<hidden, objects, actionCloneLibrary,
                                  menuCloneLibrary, recentsList, store,
                                  timerActive, isSaveRecentsEnabled>>]_vars

C11_Witness ==
    /\ lastOp = "actionTriggeredWindow"
    /\ lastCall.dispatched
    /\ lastCall.window = nullptr
    /\ Key(Cur, lastCall.action) = "recent3"
    /\ lastCall.commands = <<>>

----------------------------------------------------------------------------
(* Clones *)

Canonical(key) == initializeActionLibrary[getAction(key)]

ClonesMade(key) ==
    { NLib + j : j \in { i \in 1..Len(objects) :
                            /\ objects[i].kind = "action"
                            /\ toStringList(objects[i].data)[1] = key } }

Distinct(list) ==
    \A i, j \in 1..Len(list) : list[i] = list[j] => i = j

ClonedStep(key, ret) ==
    IF key \in LibraryKeys
    THEN /\ ret > NLib
         /\ \A j \in 1..Len(actionCloneLibrary) :
                actionCloneLibrary[j][2] # ret
         /\ ret = NLib + Len(objects')
         /\ objects' = Append(objects, objects'[ret - NLib])
         /\ objects'[ret - NLib].kind = "action"
         /\ objects'[ret - NLib].data = Canonical(key).data
         /\ objects'[ret - NLib].text = Canonical(key).text
         /\ objects'[ret - NLib].enabled = Canonical(key).enabled
         /\ objects'[ret - NLib].visible = (key \notin hidden)
         /\ actionCloneLibrary' = Append(actionCloneLibrary, <<key, ret>>)
         /\ UNCHANGED <<hidden, menuCloneLibrary>>
    ELSE /\ ret = nullptr
         /\ UNCHANGED <<hidden, objects, actionCloneLibrary,
                        menuCloneLibrary>>

InstancesComplete(key) ==
    /\ Distinct(getAllInstancesOfAction(Cur, key))
    /\ { getAllInstancesOfAction(Cur, key)[k] :
            k \in 1..Len(getAllInstancesOfAction(Cur, key)) }
         = ClonesMade(key)
           \cup (IF key \in LibraryKeys THEN {getAction(key)} ELSE {})

\* C7: cloneAction of a library key makes one new action, a copy of the
\* canonical action's data, text, enabled and visible state, and registers
\* it alone under the key, changing nothing else; for any other key it
\* returns null and changes nothing.  All instances of a key are therefore
\* the clones made for it and the canonical action, each exactly once.
C7_CloneRegistered ==
    /\ [](\A key \in CloneKeys : InstancesComplete(key))
    /\ [][lastOp' = "cloneAction"
            => ClonedStep(lastCall'.key, lastCall'.ret)]_vars

C7_Witness ==
    /\ lastOp = "cloneAction"
    /\ lastCall.key = "zoomin"
    /\ "zoomin" \in hidden
    /\ Len(getAllClonesOfAction(Cur, "zoomin")) >= 2
    /\ ~Object(Cur, lastCall.ret).visible
    /\ Len(getAllInstancesOfAction(Cur, "zoomin")) = 1 + Cardinality(ClonesMade("zoomin"))

----------------------------------------------------------------------------
(* Untracking *)

Registered(action) ==
    \/ \E j \in 1..Len(actionCloneLibrary) : actionCloneLibrary[j][2] = action
    \/ \E j \in 1..Len(menuCloneLibrary) : menuCloneLibrary[j][2] = action

Contained == { lastCall'.actions[k] : k \in 1..Len(lastCall'.actions) }

\* C8: after untrackClonedActions on a menu, no clone the menu contained is
\* still registered, each has been deleted exactly once, and every clone
\* registered for another menu is registered as before, whatever the shape
\* of the clone's data.
C8_Disposable ==
    [][lastOp' = "untrackClonedActions"
       => /\ \A action \in Contained :
                Registered(action)
                  => /\ ~Registered(action)'
                     /\ objects'[action - NLib].deleted = 1
          /\ \A j \in 1..Len(actionCloneLibrary) :
                actionCloneLibrary[j][2] \notin Contained
                  => \E i \in 1..Len(actionCloneLibrary') :
                         actionCloneLibrary'[i] = actionCloneLibrary[j]
          /\ menuCloneLibrary' = menuCloneLibrary]_vars

----------------------------------------------------------------------------
(* The recents menus *)

SlotShows(slot, i) ==
    IF i < Len(recentsList)
    THEN slot.visible /\ slot.text = At(recentsList, i).fileName
    ELSE ~slot.visible /\ slot.text = "Empty"

----------------------------------------------------------------------------
(* Most recent first *)

Count(list, x) == Len(SelectSeq(list, LAMBDA e : e = x))

RECURSIVE IsSubsequence(_, _)
IsSubsequence(a, b) ==
    IF a = <<>> THEN TRUE
    ELSE IF b = <<>> THEN FALSE
    ELSE IF Head(a) = Head(b) THEN IsSubsequence(Tail(a), Tail(b))
    ELSE IsSubsequence(a, Tail(b))

AddedFile == SRecent(lastCall'.file)

\* C13: after addFileToRecentsList(f) with saving enabled and f on disk, f is
\* the first entry and occurs once, the other existing entries are in the
\* order they were in, and a list that was full has lost its last entry.
C13_MostRecentFirst ==
    [][(lastOp' = "add" /\ isSaveRecentsEnabled
          /\ Exists(lastCall'.file, existing))
       => /\ Len(recentsList') > 0
          /\ recentsList'[1] = AddedFile
          /\ Count(recentsList', AddedFile) = 1
          /\ IsSubsequence(
                 SelectSeq(recentsList',
                           LAMBDA e : /\ e # AddedFile
                                      /\ Exists(e.filePath, existing)),
                 recentsList)
          /\ (/\ Len(recentsList) = recentsListMaxLength
              /\ NoDuplicates(recentsList)
              /\ AllExist(recentsList, existing)
              /\ Count(recentsList, AddedFile) = 0)
                => recentsList' = <<AddedFile>> \o RemoveLast(recentsList)]_vars

----------------------------------------------------------------------------
(* Saving disabled *)

\* C14: when settingsUpdated finds saving disabled it leaves the list empty
\* and has written the empty list to the store; while saving is disabled the
\* list is empty after every add, load, save and clear, and whatever is
\* written to the store is the empty list.
C14_DisabledKeepsNothing ==
    [][/\ (lastOp' \in {"settings", "buildRecentsMenu"}
            /\ ~isSaveRecentsEnabled')
          => /\ recentsList' = <<>>
             /\ store' = <<>>
             /\ storeWrites' > 0
       /\ (lastOp' \in {"add", "load", "save", "clear"}
            /\ ~isSaveRecentsEnabled')
          => recentsList' = <<>>
       /\ (~isSaveRecentsEnabled' /\ storeWrites' > 0) => store' = <<>>]_vars

C14_Witness ==
    /\ lastOp = "settings"
    /\ ~isSaveRecentsEnabled
    /\ ~saverecents
    /\ recentsList = <<>>
    /\ store = <<>>
    /\ storeWrites > 0
    /\ timerActive

----------------------------------------------------------------------------
(* What the audit keeps *)

Loaded == lastOp = "init" \/ (lastOp = "load" /\ ~timerActive)

AuditInput == variantListToRecentsList(store)

\* C15: the audit keeps, exactly once, every entry of its input whose file
\* exists, and removes only entries whose file is missing and surplus copies.
C15_AuditKeeps ==
    Loaded
      => /\ \A k \in 1..Len(AuditInput) :
               Exists(AuditInput[k].filePath, existing)
                 => Count(recentsList, AuditInput[k]) = 1
         /\ \A k \in 1..Len(recentsList) :
               Count(AuditInput, recentsList[k]) > 0

\* C16: a load that follows a save, with the timer inactive and no file
\* created or removed in between, leaves the list that the save wrote.
C16_RoundTrip ==
    [][(lastOp = "save" /\ lastOp' = "load" /\ ~timerActive)
       => /\ recentsList' = variantListToRecentsList(store)
          /\ recentsList' = recentsList]_vars

====
